---- MODULE Spec2Model ----
(***************************************************************************)
(* Model of cities_weather.py: select_cities (sort, inner join, country    *)
(* filter, dedup, truncation, weather merge, "Clear" filter) and           *)
(* get_weather (one GET per city id, accumulation of three parallel lists, *)
(* timestamp read from the last parsed body).                              *)
(*                                                                         *)
(* Not modelled: transport faults of requests.get, faults of the file      *)
(* readers and of plot_on_map (all propagate as exceptions), and columns   *)
(* of the data files the pipeline never reads.  A 200 response carries a   *)
(* well-formed body; an error response carries the provider's error body   *)
(* or a body that is not JSON.  The inner join keeps the order of the left *)
(* rows, as pandas documents it.                                           *)
(***************************************************************************)
EXTENDS Integers, Sequences, FiniteSets, TLC

VARIABLES
    cities_data,    \* rows of ne_10m_populated_places_simple.shp
    cities_id,      \* rows of city.list.json
    selection,      \* argument of select_cities
    caller,         \* "select_cities" or "direct": who called get_weather
    pc,             \* program position
    exc,            \* exception that ended the run, "none" otherwise
    sorted_cities,  \* index labels of cities_data after sort_values
    fulldataset,    \* the joined rows
    full_dataset,   \* the joined rows whose country codes agree
    clear_dataset,  \* full_dataset without duplicate names
    sel_dataset,    \* the selected rows (weather columns added at 158-162)
    id_list,        \* argument of get_weather
    requests,       \* GET requests issued so far, with the response of each
    weath_main, weath_desc, cloud_cov,   \* lists built by get_weather
    resp_j,         \* <<>> while unbound, else <<last parsed body>>
    diag,           \* diagnostics printed by get_weather
    resp_time,      \* <<>> until get_weather returns, then <<timestamp>>
    timestr,        \* <<>> until formatted, then <<formatted time>>
    rendered,       \* calls of plot_on_map: dataset and title
    final_dataset,  \* rows whose weather is "Clear"
    result          \* the table returned by select_cities

vars == <<cities_data, cities_id, selection, caller, pc, exc, sorted_cities,
          fulldataset, full_dataset, clear_dataset,
          sel_dataset, id_list, requests, weath_main, weath_desc, cloud_cov,
          resp_j, diag, resp_time, timestr, rendered, final_dataset, result>>

----------------------------------------------------------------------------
(* Bounds of the model *)

MaxPlaces == 2

MaxCatalog == 2

MaxSel == 2

MaxIds == 2

----------------------------------------------------------------------------
(* Input data *)

Names == {"Paris", "London"}

Countries == {"FR", "GB"}

Pops == {1, 2}

PlaceRecord == [nameascii : Names, iso_a2 : Countries, pop_max : Pops]

CatalogKey == [name : Names, country : Countries]

SeqsUpTo(S, n) == UNION {[1..k -> S] : k \in 0..n}

\* the places file. Names and country codes are only ever compared for
\* equality, so the first place is Paris/FR without loss of generality
PlaceTables ==
    {s \in SeqsUpTo(PlaceRecord, MaxPlaces) :
        s # <<>> => (s[1].nameascii = "Paris" /\ s[1].iso_a2 = "FR")}

\* city.list.json: every entry has its own provider id
Catalogs ==
    {[k \in 1..Len(s) |-> [name |-> s[k].name, country |-> s[k].country, id |-> k]] :
        s \in SeqsUpTo(CatalogKey, MaxCatalog)}

----------------------------------------------------------------------------
(* Table cells: numbers, strings and the absent value np.nan *)

Num(n) == [t |-> "num", v |-> n]

Str(s) == [t |-> "str", v |-> s]

NaN == [t |-> "nan"]

NoData == Str("No data")

----------------------------------------------------------------------------
(* HTTP responses the weather endpoint (or a mock of it) can give *)

OkResponse(main, desc, clouds, dt) ==
    [status_code |-> 200, is_json |-> TRUE, text |-> main,
     body |-> [weather |-> <<[main |-> main, description |-> desc]>>,
               clouds |-> <<[all |-> clouds]>>, dt |-> <<dt>>]]

\* an error response: its body is the provider's {"cod": ..., "message": ...},
\* which has no 'weather', 'clouds' or 'dt' key, or it is not JSON at all
ErrResponse(code, json) ==
    [status_code |-> code, is_json |-> json, text |-> "error",
     body |-> [weather |-> <<>>, clouds |-> <<>>, dt |-> <<>>]]

Responses ==
    { OkResponse("Clear", "clear sky", 5, 120),
      OkResponse("Rain", "light rain", 80, 180),
      ErrResponse(500, TRUE),
      ErrResponse(502, FALSE) }

HasDt(body) == body.dt # <<>>

----------------------------------------------------------------------------
(* select_cities, lines 129-146: the tabular pipeline *)

Min(a, b) == IF a < b THEN a ELSE b

\* sort_values('pop_max', ascending=False): the index labels of places in an
\* order of non-increasing pop_max; the order of ties is any (quicksort)
SortOrders(places) ==
    {p \in [1..Len(places) -> 1..Len(places)] :
        /\ \A a, b \in 1..Len(places) : a # b => p[a] # p[b]
        /\ \A a \in 1..Len(places) - 1 :
              places[p[a]].pop_max >= places[p[a + 1]].pop_max}

\* the catalog rows whose name equals the place's nameascii, in catalog order
RECURSIVE Matches(_, _, _, _)
Matches(places, catalog, label, c) ==
    IF c > Len(catalog) THEN <<>>
    ELSE (IF catalog[c].name = places[label].nameascii
          THEN <<[place |-> label,
                  nameascii |-> places[label].nameascii,
                  iso_a2 |-> places[label].iso_a2,
                  pop_max |-> places[label].pop_max,
                  name |-> catalog[c].name,
                  country |-> catalog[c].country,
                  id |-> catalog[c].id]>>
          ELSE <<>>) \o Matches(places, catalog, label, c + 1)

\* merge(how='inner', left_on='nameascii', right_on='name'): left order kept
RECURSIVE MergeRows(_, _, _)
MergeRows(places, catalog, order) ==
    IF order = <<>> THEN <<>>
    ELSE Matches(places, catalog, Head(order), 1)
            \o MergeRows(places, catalog, Tail(order))

\* the merge gives the joined rows a fresh index 0..n-1
Reindex(rows) ==
    [k \in 1..Len(rows) |->
        [index |-> k - 1, place |-> rows[k].place, nameascii |-> rows[k].nameascii,
         iso_a2 |-> rows[k].iso_a2, pop_max |-> rows[k].pop_max,
         name |-> rows[k].name, country |-> rows[k].country, id |-> rows[k].id]]

Merge(places, catalog, order) == Reindex(MergeRows(places, catalog, order))

SameCountry(row) == row.iso_a2 = row.country

\* faulty variant: the country check is left out
CountryFilterNone(rows) == rows

\* fulldataset[fulldataset['iso_a2'] == fulldataset['country']]
CountryFilter(rows) == SelectSeq(rows, SameCountry)

\* drop_duplicates(subset='nameascii', keep='first')
RECURSIVE DropDuplicatesFrom(_, _)
DropDuplicatesFrom(rows, seen) ==
    IF rows = <<>> THEN <<>>
    ELSE IF Head(rows).nameascii \in seen
         THEN DropDuplicatesFrom(Tail(rows), seen)
         ELSE <<Head(rows)>>
                \o DropDuplicatesFrom(Tail(rows), seen \cup {Head(rows).nameascii})

RECURSIVE Reverse(_)
Reverse(rows) == IF rows = <<>> THEN <<>> ELSE Append(Reverse(Tail(rows)), Head(rows))

\* faulty variant: keep='last'
DropDuplicatesLast(rows) == Reverse(DropDuplicatesFrom(Reverse(rows), {}))

DropDuplicates(rows) == DropDuplicatesFrom(rows, {})

\* clear_dataset[0:selection], selection a positive integer
Truncate(rows, n) == SubSeq(rows, 1, Min(n, Len(rows)))

IdsOf(rows) == [k \in 1..Len(rows) |-> rows[k].id]

----------------------------------------------------------------------------
(* get_weather, lines 95-107: what one response appends to each list *)

\* faulty variant: a failed request appends nothing
NextMainSkip(list, resp) ==
    IF resp.status_code = 200
    THEN Append(list, Str(resp.body.weather[1].main))
    ELSE list

NextMain(list, resp) ==
    IF resp.status_code = 200
    THEN Append(list, Str(resp.body.weather[1].main))
    ELSE Append(list, NaN)

\* line 98 reads ['main'] again, not ['description']
NextDesc(list, resp) ==
    IF resp.status_code = 200
    THEN Append(list, Str(resp.body.weather[1].main))
    ELSE Append(list, NaN)

\* faulty variant: a failed request counts as no cloud
NextCloudsZero(list, resp) ==
    IF resp.status_code = 200
    THEN Append(list, Num(resp.body.clouds[1].all))
    ELSE Append(list, Num(0))

NextClouds(list, resp) ==
    IF resp.status_code = 200
    THEN Append(list, Num(resp.body.clouds[1].all))
    ELSE Append(list, NaN)

\* lines 103-104: the two print calls
NextDiag(list, city_id, resp) ==
    IF resp.status_code = 200 THEN list
    ELSE Append(list, [city_id |-> city_id, status_code |-> resp.status_code,
                       text |-> resp.text])

----------------------------------------------------------------------------
(* select_cities, lines 155-177 *)

\* time.strftime("%D %H:%M", ...): the seconds are dropped
FormatTime(t) == [minutes |-> t \div 60]

FillNa(cell) == IF cell = NaN THEN NoData ELSE cell

\* lines 158-162: the three columns are set by position, then fillna
WithWeather(rows, main, desc, clouds) ==
    [k \in 1..Len(rows) |->
        [index |-> rows[k].index, place |-> rows[k].place,
         nameascii |-> rows[k].nameascii, iso_a2 |-> rows[k].iso_a2,
         pop_max |-> rows[k].pop_max, name |-> rows[k].name,
         country |-> rows[k].country, id |-> rows[k].id,
         weather |-> FillNa(main[k]),
         weather_description |-> FillNa(desc[k]),
         clouds |-> FillNa(clouds[k])]]

IsClear(row) == row.weather = Str("Clear")

IsNotRain(row) == row.weather # Str("Rain")

\* faulty variant: every row that does not report rain is kept
ClearRowsNotRain(rows) == SelectSeq(rows, IsNotRain)

\* sel_dataset.loc[sel_dataset['weather'] == 'Clear']
ClearRows(rows) == SelectSeq(rows, IsClear)

\* final_dataset[['nameascii', 'clouds']]: the index labels stay
Project(rows) ==
    [k \in 1..Len(rows) |->
        [index |-> rows[k].index, nameascii |-> rows[k].nameascii,
         clouds |-> rows[k].clouds]]

----------------------------------------------------------------------------
(* Initial states *)

NoRun ==
    /\ pc \in {"start", "gw_loop"}
    /\ exc = "none"
    /\ sorted_cities = <<>>
    /\ fulldataset = <<>>
    /\ full_dataset = <<>>
    /\ clear_dataset = <<>>
    /\ sel_dataset = <<>>
    /\ requests = <<>>
    /\ weath_main = <<>>
    /\ weath_desc = <<>>
    /\ cloud_cov = <<>>
    /\ resp_j = <<>>
    /\ diag = <<>>
    /\ resp_time = <<>>
    /\ timestr = <<>>
    /\ rendered = <<>>
    /\ final_dataset = <<>>
    /\ result = <<>>

\* select_cities(selection, appid) is called on the two data files
Init ==
    /\ cities_data \in PlaceTables
    /\ cities_id \in Catalogs
    /\ selection \in 1..MaxSel
    /\ caller = "select_cities"
    /\ pc = "start"
    /\ id_list = <<>>
    /\ NoRun

\* get_weather(API_URL, id_list) is called directly on any id sequence
InitGW ==
    /\ cities_data = <<>>
    /\ cities_id = <<>>
    /\ selection = 0
    /\ caller = "direct"
    /\ pc = "gw_loop"
    /\ id_list \in SeqsUpTo(1..MaxIds, MaxIds)
    /\ NoRun

----------------------------------------------------------------------------
(* get_weather *)

gw_vars == <<requests, weath_main, weath_desc, cloud_cov, resp_j, diag>>

join_vars == <<sorted_cities, fulldataset, full_dataset, clear_dataset>>

sel_vars == <<join_vars, sel_dataset, timestr, rendered, final_dataset, result>>

input_vars == <<cities_data, cities_id, selection, caller, id_list>>

\* lines 88-107, one iteration whose body parses: lists grow by one entry
Request(resp) ==
    /\ pc = "gw_loop"
    /\ Len(requests) < Len(id_list)
    /\ resp.is_json
    /\ LET city_id == id_list[Len(requests) + 1] IN
         /\ requests' = Append(requests, [city_id |-> city_id, response |-> resp])
         /\ resp_j' = <<resp.body>>
         /\ weath_main' = NextMain(weath_main, resp)
         /\ weath_desc' = NextDesc(weath_desc, resp)
         /\ cloud_cov' = NextClouds(cloud_cov, resp)
         /\ diag' = NextDiag(diag, city_id, resp)
    /\ UNCHANGED <<input_vars, sel_vars, pc, exc, resp_time>>

\* lines 91-93: response.json() raises on a body that is not JSON, before
\* the status code is looked at; the exception leaves get_weather and its caller
RequestNotJson(resp) ==
    /\ pc = "gw_loop"
    /\ Len(requests) < Len(id_list)
    /\ ~resp.is_json
    /\ requests' = Append(requests, [city_id |-> id_list[Len(requests) + 1],
                                     response |-> resp])
    /\ pc' = "raised"
    /\ exc' = "JSONDecodeError"
    /\ UNCHANGED <<input_vars, sel_vars, weath_main, weath_desc, cloud_cov,
                   resp_j, diag, resp_time>>

\* line 109 when resp_j['dt'] can be read
GetWeatherReturn ==
    /\ pc = "gw_loop"
    /\ Len(requests) = Len(id_list)
    /\ resp_j # <<>>
    /\ HasDt(resp_j[1])
    /\ resp_time' = resp_j[1].dt
    /\ pc' = IF caller = "select_cities" THEN "assign" ELSE "gw_returned"
    /\ UNCHANGED <<input_vars, sel_vars, gw_vars, exc>>

\* line 109 when it cannot: resp_j was never bound (empty id_list), or the
\* last body has no 'dt' key
GetWeatherRaise ==
    /\ pc = "gw_loop"
    /\ Len(requests) = Len(id_list)
    /\ \/ resp_j = <<>> /\ exc' = "UnboundLocalError"
       \/ resp_j # <<>> /\ ~HasDt(resp_j[1]) /\ exc' = "KeyError"
    /\ pc' = "raised"
    /\ UNCHANGED <<input_vars, sel_vars, gw_vars, resp_time>>

----------------------------------------------------------------------------
(* select_cities *)

\* lines 124-150: load, sort, merge, filter, dedup, truncate, id list
Prepare ==
    /\ pc = "start"
    /\ \E order \in SortOrders(cities_data) :
         /\ sorted_cities' = order
         /\ fulldataset' = Merge(cities_data, cities_id, order)
    /\ full_dataset' = CountryFilter(fulldataset')
    /\ clear_dataset' = DropDuplicates(full_dataset')
    /\ sel_dataset' = Truncate(clear_dataset', selection)
    /\ id_list' = IdsOf(sel_dataset')
    /\ pc' = "gw_loop"
    /\ UNCHANGED <<cities_data, cities_id, selection, caller, gw_vars, exc,
                   resp_time, timestr, rendered, final_dataset, result>>

\* lines 155-177: format the timestamp, set the weather columns, fillna,
\* plot the selection, keep the "Clear" rows, plot them, return the projection
Finish ==
    /\ pc = "assign"
    /\ timestr' = <<FormatTime(resp_time[1])>>
    /\ sel_dataset' = WithWeather(sel_dataset, weath_main, weath_desc, cloud_cov)
    /\ final_dataset' = ClearRows(sel_dataset')
    /\ rendered' = <<[dataset |-> sel_dataset',
                      title |-> [text |-> "Cloud % coverage", arg |-> <<selection>>]],
                     [dataset |-> final_dataset',
                      title |-> [text |-> "clear sky city on", arg |-> timestr']]>>
    /\ result' = Project(final_dataset')
    /\ pc' = "done"
    /\ UNCHANGED <<input_vars, gw_vars, exc, resp_time, join_vars>>

----------------------------------------------------------------------------

NextGW ==
    \/ \E resp \in Responses : Request(resp)
    \/ \E resp \in Responses : RequestNotJson(resp)
    \/ GetWeatherReturn
    \/ GetWeatherRaise

Next ==
    \/ Prepare
    \/ \E resp \in Responses : Request(resp)
    \/ \E resp \in Responses : RequestNotJson(resp)
    \/ GetWeatherReturn
    \/ GetWeatherRaise
    \/ Finish

Spec == Init /\ [][Next]_vars

SpecGW == InitGW /\ [][NextGW]_vars

Terminated == pc \in {"done", "raised", "gw_returned"}

----------------------------------------------------------------------------
(* Properties *)

RequestedIds == [k \in 1..Len(requests) |-> requests[k].city_id]

Indexes(rows) == {rows[k].index : k \in 1..Len(rows)}

AllJson == \A k \in 1..Len(requests) : requests[k].response.is_json

Ok(k) == requests[k].response.status_code = 200

OkClear(k) == Ok(k) /\ requests[k].response.body.weather[1].main = "Clear"

\* C1: the table select_cities returns has at most selection rows, each row is
\* a selected city whose response was 200 with main "Clear", and no city whose
\* fetch failed is in it
C1_AtMostNRowsAllClear ==
    pc = "done" =>
        /\ Len(result) <= selection
        /\ \A r \in 1..Len(result) : \E k \in 1..Len(sel_dataset) :
              /\ sel_dataset[k].index = result[r].index
              /\ sel_dataset[k].weather = Str("Clear")
              /\ OkClear(k)
        /\ \A k \in 1..Len(sel_dataset) :
              ~Ok(k) => /\ sel_dataset[k].weather = NoData
                        /\ sel_dataset[k].index \notin Indexes(result)

\* select_cities returns one of two selected cities, the other's fetch failed
C1_Witness ==
    /\ pc = "done"
    /\ Len(requests) = 2
    /\ ~Ok(1)
    /\ Len(result) = 1
    /\ selection = 2

\* C2: the three lists of get_weather always have one length, and when it
\* returns they are as long as id_list, request k was for id_list[k], and
\* entry k of each list is the one made from the response to request k
C2_OutputsAligned ==
    /\ Len(weath_main) = Len(cloud_cov)
    /\ Len(weath_desc) = Len(cloud_cov)
    /\ pc = "gw_returned" =>
        /\ Len(cloud_cov) = Len(id_list)
        /\ RequestedIds = id_list
        /\ \A k \in 1..Len(id_list) :
              IF Ok(k)
              THEN /\ cloud_cov[k] = Num(requests[k].response.body.clouds[1].all)
                   /\ weath_main[k] = Str(requests[k].response.body.weather[1].main)
                   /\ weath_desc[k] = Str(requests[k].response.body.weather[1].main)
              ELSE /\ cloud_cov[k] = NaN
                   /\ weath_main[k] = NaN
                   /\ weath_desc[k] = NaN

\* get_weather returns after one id was requested twice with different responses
C2_Witness ==
    /\ pc = "gw_returned"
    /\ Len(id_list) >= 2
    /\ \E a, b \in 1..Len(id_list) :
         /\ a < b
         /\ id_list[a] = id_list[b]
         /\ Ok(b)
         /\ requests[a].response # requests[b].response

\* C3: an entry is the absent marker in all three lists when the response at
\* its position was not 200, and in none of them when it was 200
C3_AbsentIffNot200 ==
    \A k \in 1..Len(weath_main) :
        IF Ok(k)
        THEN cloud_cov[k] # NaN /\ weath_desc[k] # NaN /\ weath_main[k] # NaN
        ELSE cloud_cov[k] = NaN /\ weath_desc[k] = NaN /\ weath_main[k] = NaN

\* get_weather returns lists that hold a failed and a successful position
C3_Witness ==
    /\ pc = "gw_returned"
    /\ \E a, b \in 1..Len(weath_main) : ~Ok(a) /\ Ok(b) /\ cloud_cov[a] = NaN

\* C4: get_weather on a non-empty id_list, whatever the (JSON) responses,
\* ends by returning after one request per id in input order
C4_OneRequestPerIdThenReturn ==
    (Terminated /\ caller = "direct" /\ id_list # <<>> /\ AllJson) =>
        /\ pc = "gw_returned"
        /\ RequestedIds = id_list

\* C5 as stated: a joined row with iso_a2 # country is not selected, its id
\* is not passed to get_weather nor requested, and it is not in the returned
\* table
C5_MismatchedRowAndIdExcluded ==
    pc # "start" =>
        \A j \in 1..Len(fulldataset) :
            fulldataset[j].iso_a2 # fulldataset[j].country =>
                /\ fulldataset[j].index \notin Indexes(sel_dataset)
                /\ \A k \in 1..Len(id_list) : id_list[k] # fulldataset[j].id
                /\ \A k \in 1..Len(requests) : requests[k].city_id # fulldataset[j].id
                /\ fulldataset[j].index \notin Indexes(final_dataset)
                /\ fulldataset[j].index \notin Indexes(result)

\* C5 amended: a joined row with iso_a2 # country is not selected and not in
\* the returned table, and every id passed to get_weather and requested is
\* that of the selected row at its position, whose two country codes agree
C5_MismatchedRowsExcluded ==
    pc # "start" =>
        /\ \A j \in 1..Len(fulldataset) :
              fulldataset[j].iso_a2 # fulldataset[j].country =>
                  /\ fulldataset[j].index \notin Indexes(sel_dataset)
                  /\ fulldataset[j].index \notin Indexes(final_dataset)
                  /\ fulldataset[j].index \notin Indexes(result)
        /\ Len(id_list) = Len(sel_dataset)
        /\ \A k \in 1..Len(id_list) :
              /\ id_list[k] = sel_dataset[k].id
              /\ sel_dataset[k].iso_a2 = sel_dataset[k].country
        /\ \A k \in 1..Len(requests) : requests[k].city_id = id_list[k]

\* a city is returned while a joined row of the same name was a mismatch
C5_Witness ==
    /\ pc = "done"
    /\ \E j \in 1..Len(fulldataset), r \in 1..Len(result) :
         /\ fulldataset[j].iso_a2 # fulldataset[j].country
         /\ fulldataset[j].nameascii = result[r].nameascii

C7_Status500GivesEmptyTable ==
    (Terminated /\ caller = "select_cities" /\ Len(clear_dataset) = 1
        /\ Len(requests) = 1 /\ requests[1].response.status_code = 500) =>
        /\ pc = "done"
        /\ exc = "none"
        /\ result = <<>>
        /\ \E d \in 1..Len(diag) : diag[d].city_id = id_list[1]

\* C8: with no row left after join, filter and dedup, select_cities does not
\* fail: the empty selection is rendered and returned
C8_EmptySelectionReturned ==
    (Terminated /\ caller = "select_cities" /\ id_list = <<>>) =>
        /\ pc = "done"
        /\ exc = "none"
        /\ Len(rendered) = 2
        /\ result = <<>>

\* C9: every selected city whose response was 200 with main "Clear" is in
\* the returned table with its name and the clouds.all of its own response
C9_ClearCityReturned ==
    (Terminated /\ caller = "select_cities" /\ AllJson) =>
        \A k \in 1..Len(requests) :
            OkClear(k) =>
                /\ pc = "done"
                /\ \E r \in 1..Len(result) :
                     /\ result[r].index = sel_dataset[k].index
                     /\ result[r].nameascii = sel_dataset[k].nameascii
                     /\ result[r].clouds = Num(requests[k].response.body.clouds[1].all)

\* the latest request before position k that got status 200
LastOkBefore(k) ==
    CHOOSE a \in 1..(k - 1) : Ok(a) /\ \A b \in (a + 1)..(k - 1) : ~Ok(b)

\* C10: get_weather returns the dt of the last response, and when the last
\* request failed after an earlier success, the dt of the latest success
C10_TimestampOfLastSuccess ==
    (Terminated /\ caller = "direct" /\ requests # <<>> /\ AllJson) =>
        LET n == Len(requests) IN
            IF Ok(n)
            THEN /\ pc = "gw_returned"
                 /\ resp_time = requests[n].response.body.dt
            ELSE (\E a \in 1..(n - 1) : Ok(a)) =>
                    /\ pc = "gw_returned"
                    /\ resp_time = requests[LastOkBefore(n)].response.body.dt

====
